---- MODULE Spec2Model ----
(***************************************************************************)
(* Race-timing app (src/app.py): the process-wide RaceManager store and    *)
(* the Streamlit pages that drive it.                                      *)
(*                                                                         *)
(* Conventions                                                             *)
(*   - Python's None is the empty tuple <<>>, a present value v is <<v>>.  *)
(*   - Times are whole centiseconds; time.time() reads the variable now.   *)
(*   - A user id str(random.randint(100000, 999999)) is modelled by the    *)
(*     integer drawn; a scanned QR text is the integer it spells.          *)
(*   - Python strings that are ordered (the leaderboard sort key) are      *)
(*     sequences of code points.                                           *)
(*   - The two non-ASCII messages of record_finish are written in ASCII:   *)
(*     "ALREADY_RECORDED" for line 46's text, "INVALID_ID" for line 47's.  *)
(***************************************************************************)
EXTENDS Integers, Sequences, FiniteSets, TLC

(* ------------------------------ bounds -------------------------------- *)
\* number of ids random.randint may draw (the code draws from 900000)
NumIds == 2
\* the clock stops advancing at this reading
MaxClock == 2
\* browser sessions alive at once
NumSessions == 2
\* register calls per race generation
MaxReg == 2

(* ----------------------------- constants ------------------------------ *)
LowId == 100000
IdSpace == LowId .. (LowId + NumIds - 1)
\* a QR text that no register call can have issued
ForeignCode == LowId - 1
ScanCodes == IdSpace \cup {ForeignCode}
Sessions == 1 .. NumSessions
\* "" is the empty text input
Names == {"", "A"}
Groups == {"G1"}
Password == "963852"
Passwords == {Password, "000000"}
MsgAlready == "ALREADY_RECORDED"
MsgInvalid == "INVALID_ID"

None == <<>>
Some(v) == <<v>>
Val(o) == o[1]
\* Python truthiness of an optional number: None and 0 are falsy
Truthy(o) == o # None /\ Val(o) # 0

(* ------------------------ the contestants dict ------------------------ *)
\* self.contestants is a function from the ids registered to their info
\* dicts. The dict's insertion order is not kept: get_dataframe lists the
\* rows by id, and the sort that follows ranges over every order its key
\* allows.
EmptyDict == <<>>
Has(c, uid) == uid \in DOMAIN c
\* c[uid] = rec
SetItem(c, uid, rec) == [k \in DOMAIN c \cup {uid} |-> IF k = uid THEN rec ELSE c[k]]

VARIABLES
    contestants,    \* manager.contestants
    start_time,     \* manager.start_time
    is_running,     \* manager.is_running
    now,            \* the wall clock
    page,           \* session_state.page of each session
    user_id,        \* session_state.user_id of each session
    authed,         \* the session has submitted the right password on its admin_login page
    stopped,        \* the poll loop of each contestant page has left its while loop (line 197)
    btn_disabled,   \* the start button as last rendered to each admin session
    last,           \* what the step that led here called on the manager, and what it returned
    regCount,       \* register calls since the latest reset_race
    recorded,       \* per id, the duration of the first Recorded outcome since the latest reset_race
    stale,          \* the id a contestant session shows was issued before the latest reset_race (followed under SpecGen)
    pc,             \* where the script thread of each session stands inside a manager method
    arg,            \* record_finish's user_id argument in that thread
    dur,            \* record_finish's local duration in that thread
    iter,           \* get_dataframe's dict iterator and its local data list in that thread
    writes          \* per id, the finish_time writes to its current contestant entry

vars == <<contestants, start_time, is_running, now, page, authed, user_id, stopped,
          btn_disabled, last, regCount, recorded, stale, pc, arg, dur, iter, writes>>

(* --------------------------- RaceManager ------------------------------ *)
\* register with the id the random draw produced
register(c, uid, name, group) ==
    SetItem(c, uid, [name |-> name, group |-> group, finish_time |-> None])

start_race(t) == [is_running |-> TRUE, start_time |-> Some(t)]

\* reset_race without line 37
reset_race_keeps == [is_running |-> FALSE, start_time |-> None, contestants |-> contestants]

reset_race == [is_running |-> FALSE, start_time |-> None, contestants |-> EmptyDict]

\* record_finish storing the new duration before it looks at the old one
record_finish_rewrites(c, st, t, uid) ==
    IF Has(c, uid) /\ Truthy(st)
    THEN LET duration == t - Val(st)
             stored == [c EXCEPT ![uid].finish_time = Some(duration)]
         IN IF c[uid].finish_time = None
            THEN [contestants |-> stored, ret |-> <<TRUE, c[uid].name, duration>>]
            ELSE [contestants |-> stored,
                  ret |-> <<FALSE, MsgAlready, Val(c[uid].finish_time)>>]
    ELSE [contestants |-> c, ret |-> <<FALSE, MsgInvalid, 0>>]

\* record_finish giving the duration to every contestant still running
record_finish_all(c, st, t, uid) ==
    IF Has(c, uid) /\ Truthy(st)
    THEN IF c[uid].finish_time = None
         THEN LET duration == t - Val(st)
              IN [contestants |-> [k \in DOMAIN c |->
                                      IF c[k].finish_time = None
                                      THEN [c[k] EXCEPT !.finish_time = Some(duration)]
                                      ELSE c[k]],
                  ret |-> <<TRUE, c[uid].name, duration>>]
         ELSE [contestants |-> c,
               ret |-> <<FALSE, MsgAlready, Val(c[uid].finish_time)>>]
    ELSE [contestants |-> c, ret |-> <<FALSE, MsgInvalid, 0>>]

record_finish(c, st, t, uid) ==
    IF Has(c, uid) /\ Truthy(st)
    THEN IF c[uid].finish_time = None
         THEN LET duration == t - Val(st)
              IN [contestants |-> [c EXCEPT ![uid].finish_time = Some(duration)],
                  ret |-> <<TRUE, c[uid].name, duration>>]
         ELSE [contestants |-> c,
               ret |-> <<FALSE, MsgAlready, Val(c[uid].finish_time)>>]
    ELSE [contestants |-> c, ret |-> <<FALSE, MsgInvalid, 0>>]

(* ----------------------- formatting and rows -------------------------- *)
RECURSIVE Digits(_)
\* the decimal digits of n >= 0 as code points
Digits(n) == IF n < 10 THEN <<48 + n>> ELSE Append(Digits(n \div 10), 48 + (n % 10))
\* f"{n:02d}"
Pad2(n) == IF n < 10 THEN <<48, 48 + n>> ELSE Digits(n)

\* "00:00.00" and "--:--"
ZeroTimeStr == <<48, 48, 58, 48, 48, 46, 48, 48>>
DashStr == <<45, 45, 58, 45, 45>>
StatusDone == "FINISHED"
StatusOpen == "IN_PROGRESS_OR_NOT_STARTED"

\* seconds is an optional duration in centiseconds
format_time(seconds) ==
    IF seconds = None THEN ZeroTimeStr
    ELSE LET cs == Val(seconds)
             mins == cs \div 6000
             secs == (cs \div 100) % 60
             millis == cs % 100
         IN Pad2(mins) \o <<58>> \o Pad2(secs) \o <<46>> \o Pad2(millis)

\* the ids of c in ascending order
RECURSIVE KeySeq(_)
KeySeq(S) ==
    IF S = {} THEN <<>>
    ELSE LET m == CHOOSE x \in S : \A y \in S : x <= y
         IN <<m>> \o KeySeq(S \ {m})

\* one row per contestant; uid is not a column of the frame, it names the
\* contestant the row was made from
get_dataframe(c) ==
    LET keys == KeySeq(DOMAIN c)
    IN [i \in DOMAIN keys |->
           LET info == c[keys[i]]
               ft == info.finish_time
           IN [uid |-> keys[i],
               name |-> info.name,
               group |-> info.group,
               time |-> IF Truthy(ft) THEN format_time(ft) ELSE DashStr,
               status |-> IF Truthy(ft) THEN StatusDone ELSE StatusOpen]]

\* Python's str <= str: lexicographic on code points
RECURSIVE StrLeq(_, _)
StrLeq(a, b) ==
    IF a = <<>> THEN TRUE
    ELSE IF b = <<>> THEN FALSE
    ELSE IF Head(a) # Head(b) THEN Head(a) < Head(b)
    ELSE StrLeq(Tail(a), Tail(b))

\* df.sort_values(by=time column): the row orders the sort may return, each a
\* permutation p of the row indices (row k of the result is row p[k] of df);
\* rows with equal keys come out in an order the sort does not fix
SortOrders(df) ==
    {p \in [DOMAIN df -> DOMAIN df] :
        /\ \A i, j \in DOMAIN df : i # j => p[i] # p[j]
        /\ \A i, j \in DOMAIN df : i < j => StrLeq(df[p[i]].time, df[p[j]].time)}

\* the leaderboard of the admin dashboard
Leaderboards(c) ==
    LET df == get_dataframe(c)
    IN IF df = <<>> THEN {<<>>} ELSE SortOrders(df)

(* ------------------------------ Init ---------------------------------- *)
\* the step called nothing on the manager
NoCall == [op |-> "none"]
Init ==
    /\ contestants = EmptyDict
    /\ start_time = None
    /\ is_running = FALSE
    /\ now = 1
    /\ page = [s \in Sessions |-> "register"]
    /\ authed = [s \in Sessions |-> FALSE]
    /\ user_id = [s \in Sessions |-> None]
    /\ stopped = [s \in Sessions |-> FALSE]
    /\ btn_disabled = [s \in Sessions |-> FALSE]
    /\ last = NoCall
    /\ regCount = 0
    /\ recorded = [i \in IdSpace |-> None]
    /\ stale = [s \in Sessions |-> FALSE]
    /\ pc = [s \in Sessions |-> "idle"]
    /\ arg = [s \in Sessions |-> None]
    /\ dur = [s \in Sessions |-> None]
    /\ iter = [s \in Sessions |-> None]
    /\ writes = [i \in IdSpace |-> 0]

(* ----------------------------- actions -------------------------------- *)
store == <<contestants, start_time, is_running>>
ghost == <<regCount, recorded, stale>>
threads == <<pc, arg, dur, iter>>
\* the script thread of session s is not inside a manager method
Idle(s) == pc[s] = "idle"

Tick ==
    /\ now < MaxClock
    /\ now' = now + 1
    /\ UNCHANGED <<store, page, authed, user_id, stopped, btn_disabled, ghost, threads, writes>>
    /\ last' = NoCall

\* a browser tab is opened or reloaded: a fresh session_state
NewSession(s) ==
    /\ Idle(s)
    /\ page' = [page EXCEPT ![s] = "register"]
    /\ authed' = [authed EXCEPT ![s] = FALSE]
    /\ user_id' = [user_id EXCEPT ![s] = None]
    /\ stopped' = [stopped EXCEPT ![s] = FALSE]
    /\ btn_disabled' = [btn_disabled EXCEPT ![s] = FALSE]
    /\ stale' = [stale EXCEPT ![s] = FALSE]
    /\ UNCHANGED <<store, now, regCount, recorded, threads, writes>>
    /\ last' = NoCall

\* the submit handler without the test of line 136
SubmitRegister_unchecked(s, name, group, uid) ==
    /\ page[s] = "register"
    /\ Idle(s)
    /\ regCount < MaxReg
    /\ contestants' = register(contestants, uid, name, group)
    /\ user_id' = [user_id EXCEPT ![s] = Some(uid)]
    /\ page' = [page EXCEPT ![s] = "contestant"]
    /\ UNCHANGED authed
    /\ stopped' = [stopped EXCEPT ![s] = FALSE]
    /\ last' = [op |-> "register", ret |-> uid]
    /\ regCount' = regCount + 1
    /\ UNCHANGED stale
    /\ writes' = [writes EXCEPT ![uid] = 0]
    /\ UNCHANGED <<start_time, is_running, now, btn_disabled, recorded, threads>>

\* the register form is submitted: with a name, register is called and the
\* rerun shows the contestant page; without one, st.error is shown
SubmitRegister(s, name, group, uid) ==
    /\ page[s] = "register"
    /\ Idle(s)
    /\ IF name # ""
       THEN /\ regCount < MaxReg
            /\ contestants' = register(contestants, uid, name, group)
            /\ user_id' = [user_id EXCEPT ![s] = Some(uid)]
            /\ page' = [page EXCEPT ![s] = "contestant"]
            /\ UNCHANGED authed
            /\ stopped' = [stopped EXCEPT ![s] = FALSE]
            /\ last' = [op |-> "register", ret |-> uid]
            /\ regCount' = regCount + 1
            /\ UNCHANGED stale
            /\ writes' = [writes EXCEPT ![uid] = 0]
            /\ UNCHANGED recorded
       ELSE /\ last' = [op |-> "submit_empty", s |-> s, pre |-> store, regs |-> regCount]
            /\ UNCHANGED <<contestants, user_id, stopped, page, authed, ghost, writes>>
    /\ UNCHANGED <<start_time, is_running, now, btn_disabled, threads>>

\* "I am the organiser" on the register page
GoAdminLogin(s) ==
    /\ page[s] = "register"
    /\ Idle(s)
    /\ page' = [page EXCEPT ![s] = "admin_login"]
    /\ UNCHANGED authed
    /\ UNCHANGED <<store, now, user_id, stopped, btn_disabled, ghost, threads, writes>>
    /\ last' = NoCall

\* the login handler without the test of line 157
Login_any(s, pwd) ==
    /\ page[s] = "admin_login"
    /\ Idle(s)
    /\ page' = [page EXCEPT ![s] = "admin_dashboard"]
    /\ authed' = [authed EXCEPT ![s] = @ \/ pwd = Password]
    /\ btn_disabled' = [btn_disabled EXCEPT ![s] = is_running]
    /\ UNCHANGED <<store, now, user_id, stopped, ghost, threads, writes>>
    /\ last' = NoCall

\* the login button; a successful login reruns the script, which renders the
\* dashboard and its start button (disabled = manager.is_running)
Login(s, pwd) ==
    /\ page[s] = "admin_login"
    /\ Idle(s)
    /\ IF pwd = Password
       THEN /\ page' = [page EXCEPT ![s] = "admin_dashboard"]
            /\ authed' = [authed EXCEPT ![s] = TRUE]
            /\ btn_disabled' = [btn_disabled EXCEPT ![s] = is_running]
       ELSE UNCHANGED <<page, authed, btn_disabled>>
    /\ UNCHANGED <<store, now, user_id, stopped, ghost, threads, writes>>
    /\ last' = NoCall

BackToRegister(s) ==
    /\ page[s] = "admin_login"
    /\ Idle(s)
    /\ page' = [page EXCEPT ![s] = "register"]
    /\ UNCHANGED authed
    /\ UNCHANGED <<store, now, user_id, stopped, btn_disabled, ghost, threads, writes>>
    /\ last' = NoCall

\* the start button is clicked in the browser of session s, where it is
\* enabled as last rendered; the rerun renders it again
StartClick(s) ==
    /\ page[s] = "admin_dashboard"
    /\ ~btn_disabled[s]
    /\ Idle(s)
    /\ is_running' = start_race(now).is_running
    /\ start_time' = start_race(now).start_time
    /\ btn_disabled' = [btn_disabled EXCEPT ![s] = is_running']
    /\ last' = [op |-> "start_race", s |-> s, pre_contestants |-> contestants]
    /\ UNCHANGED <<contestants, now, page, authed, user_id, stopped, regCount, stale, recorded, threads, writes>>

\* the reset button is clicked; track tells whether stale follows the reset
ResetPressed(s, track) ==
    /\ page[s] = "admin_dashboard"
    /\ Idle(s)
    /\ is_running' = reset_race.is_running
    /\ start_time' = reset_race.start_time
    /\ contestants' = reset_race.contestants
    /\ btn_disabled' = [btn_disabled EXCEPT ![s] = is_running']
    /\ last' = [op |-> "reset_race", s |-> s, before |-> Cardinality(DOMAIN contestants),
                was_running |-> is_running]
    /\ regCount' = 0
    /\ stale' = IF track THEN [t \in Sessions |-> page[t] = "contestant"] ELSE stale
    /\ recorded' = [i \in IdSpace |-> None]
    /\ writes' = [i \in IdSpace |-> 0]
    /\ UNCHANGED <<now, page, authed, user_id, stopped, threads>>

ResetClick(s) == ResetPressed(s, FALSE)

ResetClickGen(s) == ResetPressed(s, TRUE)

\* a photo is taken and decode_qr finds the text code in it
Scan(s, code) ==
    /\ page[s] = "admin_dashboard"
    /\ Idle(s)
    /\ LET r == record_finish(contestants, start_time, now, code)
       IN /\ contestants' = r.contestants
          /\ last' = [op |-> "record_finish", s |-> s, code |-> code,
                      known |-> Has(contestants, code),
                      started |-> is_running /\ start_time # None,
                      prior |-> IF code \in IdSpace THEN recorded[code] ELSE None,
                      pre |-> store,
                      ret |-> r.ret]
          /\ recorded' = IF r.ret[1] /\ code \in IdSpace /\ recorded[code] = None
                         THEN [recorded EXCEPT ![code] = Some(r.ret[3])]
                         ELSE recorded
          /\ writes' = IF r.ret[1] THEN [writes EXCEPT ![code] = @ + 1] ELSE writes
    /\ btn_disabled' = [btn_disabled EXCEPT ![s] = is_running]
    /\ UNCHANGED <<start_time, is_running, now, page, authed, user_id, stopped, regCount, stale, threads>>

\* a photo is taken and decode_qr finds no text: the store is not called
ScanFail(s) ==
    /\ page[s] = "admin_dashboard"
    /\ Idle(s)
    /\ btn_disabled' = [btn_disabled EXCEPT ![s] = is_running]
    /\ UNCHANGED <<store, now, page, authed, user_id, stopped, ghost, threads, writes>>
    /\ last' = NoCall

\* one iteration of the contestant page's while loop (lines 187-207): the
\* placeholder is redrawn, and the loop is left when the session's own
\* finish_time is seen
Poll(s) ==
    /\ page[s] = "contestant"
    /\ ~stopped[s]
    /\ Idle(s)
    /\ LET uid == Val(user_id[s])
           started == is_running /\ Truthy(start_time)
           my_data == IF Has(contestants, uid) THEN Some(contestants[uid]) ELSE None
           finished == started /\ my_data # None /\ Truthy(Val(my_data).finish_time)
       IN /\ stopped' = [stopped EXCEPT ![s] = finished]
          /\ last' = [op |-> "poll", s |-> s,
                      own |-> IF my_data = None THEN None ELSE Val(my_data).finish_time,
                      stop |-> finished,
                      shown |-> IF finished THEN format_time(Val(my_data).finish_time)
                                ELSE IF started THEN format_time(Some(now - Val(start_time)))
                                ELSE ZeroTimeStr]
    /\ UNCHANGED <<store, now, page, authed, user_id, btn_disabled, ghost, threads, writes>>

(* ------------- the manager methods, one attribute access a step -------- *)
\* Each session's script runs in a thread of its own against the one
\* manager; the interpreter may switch threads between any two attribute
\* accesses. The labels are the source lines.

\* the start button is clicked: line 215 renders it, line 31 runs
CStartBegin(s) ==
    /\ page[s] = "admin_dashboard"
    /\ ~btn_disabled[s]
    /\ Idle(s)
    /\ is_running' = start_race(now).is_running
    /\ pc' = [pc EXCEPT ![s] = "start_32"]
    /\ btn_disabled' = [btn_disabled EXCEPT ![s] = is_running]
    /\ last' = NoCall
    /\ UNCHANGED <<contestants, start_time, now, page, authed, user_id, stopped, ghost, arg, dur, iter, writes>>

\* line 32, then the rerun renders the button again
CStartEnd(s) ==
    /\ pc[s] = "start_32"
    /\ start_time' = start_race(now).start_time
    /\ pc' = [pc EXCEPT ![s] = "idle"]
    /\ btn_disabled' = [btn_disabled EXCEPT ![s] = is_running]
    /\ last' = [op |-> "start_race"]
    /\ UNCHANGED <<contestants, is_running, now, page, authed, user_id, stopped, ghost, arg, dur, iter, writes>>

\* the reset button is clicked: line 35
CResetBegin(s) ==
    /\ page[s] = "admin_dashboard"
    /\ Idle(s)
    /\ is_running' = reset_race.is_running
    /\ pc' = [pc EXCEPT ![s] = "reset_36"]
    /\ btn_disabled' = [btn_disabled EXCEPT ![s] = is_running]
    /\ last' = NoCall
    /\ UNCHANGED <<contestants, start_time, now, page, authed, user_id, stopped, ghost, arg, dur, iter, writes>>

\* line 36
CResetMid(s) ==
    /\ pc[s] = "reset_36"
    /\ start_time' = reset_race.start_time
    /\ pc' = [pc EXCEPT ![s] = "reset_37"]
    /\ last' = NoCall
    /\ UNCHANGED <<contestants, is_running, now, page, authed, user_id, stopped, btn_disabled, ghost, arg, dur, iter, writes>>

\* line 37, then the rerun renders the button again
CResetEnd(s) ==
    /\ pc[s] = "reset_37"
    /\ contestants' = reset_race.contestants
    /\ pc' = [pc EXCEPT ![s] = "idle"]
    /\ btn_disabled' = [btn_disabled EXCEPT ![s] = is_running]
    /\ last' = [op |-> "reset_race", before |-> Cardinality(DOMAIN contestants),
                was_running |-> is_running]
    /\ regCount' = 0
    /\ UNCHANGED stale
    /\ recorded' = [i \in IdSpace |-> None]
    /\ writes' = [i \in IdSpace |-> 0]
    /\ iter' = [t \in Sessions |->
                   IF iter[t] # None /\ Val(iter[t]).live
                   THEN Some([Val(iter[t]) EXCEPT !.live = FALSE, !.d = contestants])
                   ELSE iter[t]]
    /\ UNCHANGED <<start_time, is_running, now, page, authed, user_id, stopped, arg, dur>>

\* record_finish returns r in thread s; a Recorded outcome reruns the script
Return(s, r) ==
    /\ pc' = [pc EXCEPT ![s] = "idle"]
    /\ arg' = [arg EXCEPT ![s] = None]
    /\ dur' = [dur EXCEPT ![s] = None]
    /\ last' = [op |-> "record_finish", code |-> Val(arg[s]), ret |-> r, raised |-> "none"]
    /\ btn_disabled' = IF r[1] THEN [btn_disabled EXCEPT ![s] = is_running]
                       ELSE btn_disabled
    /\ UNCHANGED iter

\* record_finish raises e in thread s: the script run ends with the error
Raise(s, e) ==
    /\ pc' = [pc EXCEPT ![s] = "idle"]
    /\ arg' = [arg EXCEPT ![s] = None]
    /\ dur' = [dur EXCEPT ![s] = None]
    /\ last' = [op |-> "record_finish", code |-> Val(arg[s]), ret |-> None, raised |-> e]
    /\ UNCHANGED <<btn_disabled, iter>>

Goto(s, label) ==
    /\ pc' = [pc EXCEPT ![s] = label]
    /\ last' = NoCall
    /\ UNCHANGED <<arg, dur, iter, btn_disabled>>

\* a photo is taken and decoded to code: line 215 renders the button, line
\* 236 calls record_finish(code)
CScanBegin(s, code) ==
    /\ page[s] = "admin_dashboard"
    /\ Idle(s)
    /\ pc' = [pc EXCEPT ![s] = "rf_40a"]
    /\ arg' = [arg EXCEPT ![s] = Some(code)]
    /\ btn_disabled' = [btn_disabled EXCEPT ![s] = is_running]
    /\ last' = NoCall
    /\ UNCHANGED <<store, now, page, authed, user_id, stopped, ghost, dur, iter, writes>>

\* line 40: user_id in self.contestants
CRf40a(s) ==
    /\ pc[s] = "rf_40a"
    /\ IF Has(contestants, Val(arg[s]))
       THEN Goto(s, "rf_40b")
       ELSE Return(s, <<FALSE, MsgInvalid, 0>>)
    /\ UNCHANGED <<store, now, page, authed, user_id, stopped, ghost, writes>>

\* line 40: and self.start_time
CRf40b(s) ==
    /\ pc[s] = "rf_40b"
    /\ IF Truthy(start_time)
       THEN Goto(s, "rf_41")
       ELSE Return(s, <<FALSE, MsgInvalid, 0>>)
    /\ UNCHANGED <<store, now, page, authed, user_id, stopped, ghost, writes>>

\* line 41: self.contestants[user_id]['finish_time'] is None
CRf41(s) ==
    /\ pc[s] = "rf_41"
    /\ IF ~Has(contestants, Val(arg[s]))
       THEN Raise(s, "KeyError")
       ELSE IF contestants[Val(arg[s])].finish_time = None
            THEN Goto(s, "rf_42")
            ELSE Goto(s, "rf_46")
    /\ UNCHANGED <<store, now, page, authed, user_id, stopped, ghost, writes>>

\* line 42: duration = time.time() - self.start_time
CRf42(s) ==
    /\ pc[s] = "rf_42"
    /\ IF start_time = None
       THEN Raise(s, "TypeError")
       ELSE /\ pc' = [pc EXCEPT ![s] = "rf_43"]
            /\ dur' = [dur EXCEPT ![s] = Some(now - Val(start_time))]
            /\ last' = NoCall
            /\ UNCHANGED <<arg, iter, btn_disabled>>
    /\ UNCHANGED <<store, now, page, authed, user_id, stopped, ghost, writes>>

\* line 43: self.contestants[user_id]['finish_time'] = duration
CRf43(s) ==
    /\ pc[s] = "rf_43"
    /\ IF ~Has(contestants, Val(arg[s]))
       THEN /\ Raise(s, "KeyError")
            /\ UNCHANGED <<contestants, writes>>
       ELSE /\ contestants' = [contestants EXCEPT ![Val(arg[s])].finish_time = dur[s]]
            /\ writes' = [writes EXCEPT ![Val(arg[s])] = @ + 1]
            /\ Goto(s, "rf_44")
    /\ UNCHANGED <<start_time, is_running, now, page, authed, user_id, stopped, ghost>>

\* line 44: return True, self.contestants[user_id]['name'], duration
CRf44(s) ==
    /\ pc[s] = "rf_44"
    /\ IF ~Has(contestants, Val(arg[s]))
       THEN Raise(s, "KeyError")
       ELSE Return(s, <<TRUE, contestants[Val(arg[s])].name, Val(dur[s])>>)
    /\ UNCHANGED <<store, now, page, authed, user_id, stopped, ghost, writes>>

\* line 46: return False, ..., self.contestants[user_id]['finish_time']
CRf46(s) ==
    /\ pc[s] = "rf_46"
    /\ IF ~Has(contestants, Val(arg[s]))
       THEN Raise(s, "KeyError")
       ELSE LET ft == contestants[Val(arg[s])].finish_time
            IN Return(s, <<FALSE, MsgAlready, IF ft = None THEN None ELSE Val(ft)>>)
    /\ UNCHANGED <<store, now, page, authed, user_id, stopped, ghost, writes>>

\* the dashboard is drawn down to its leaderboard: line 215 renders the
\* button, line 250 calls get_dataframe, whose line 51 makes the iterator of
\* self.contestants.items(). The iterator holds the dict object (live: it is
\* still self.contestants; otherwise d is that object, which reset_race put
\* aside) and the size the dict had (used); rest are the keys to come.
CDfBegin(s) ==
    /\ page[s] = "admin_dashboard"
    /\ Idle(s)
    /\ pc' = [pc EXCEPT ![s] = "df_51"]
    /\ iter' = [iter EXCEPT ![s] = Some([live |-> TRUE, d |-> EmptyDict,
                                         used |-> Cardinality(DOMAIN contestants),
                                         began |-> DOMAIN contestants,
                                         rest |-> DOMAIN contestants,
                                         rows |-> <<>>])]
    /\ btn_disabled' = [btn_disabled EXCEPT ![s] = is_running]
    /\ last' = NoCall
    /\ UNCHANGED <<store, now, page, authed, user_id, stopped, ghost, arg, dur, writes>>

\* line 51, the for statement asks the iterator for the next item: a dict
\* whose size has changed raises RuntimeError, an exhausted one ends the
\* loop and line 60 returns the frame; otherwise lines 52-59 append the row
CDfNext(s) ==
    /\ pc[s] = "df_51"
    /\ LET it == Val(iter[s])
           dict == IF it.live THEN contestants ELSE it.d
       IN IF Cardinality(DOMAIN dict) # it.used
          THEN /\ last' = [op |-> "get_dataframe", began |-> it.began, rows |-> <<>>,
                           raised |-> "RuntimeError"]
               /\ pc' = [pc EXCEPT ![s] = "idle"]
               /\ iter' = [iter EXCEPT ![s] = None]
          ELSE IF it.rest = {}
          THEN /\ last' = [op |-> "get_dataframe", began |-> it.began, rows |-> it.rows,
                           raised |-> "none"]
               /\ pc' = [pc EXCEPT ![s] = "idle"]
               /\ iter' = [iter EXCEPT ![s] = None]
          ELSE LET uid == KeySeq(it.rest)[1]
                   row == get_dataframe(SetItem(EmptyDict, uid, dict[uid]))[1]
               IN /\ iter' = [iter EXCEPT ![s] = Some([it EXCEPT !.rest = @ \ {uid},
                                                                 !.rows = Append(@, row)])]
                  /\ last' = NoCall
                  /\ UNCHANGED pc
    /\ UNCHANGED <<store, now, page, authed, user_id, stopped, btn_disabled, ghost, arg, dur, writes>>

Next ==
    \/ Tick
    \/ \E s \in Sessions : NewSession(s)
    \/ \E s \in Sessions, name \in Names, group \in Groups, uid \in IdSpace :
           SubmitRegister(s, name, group, uid)
    \/ \E s \in Sessions : GoAdminLogin(s)
    \/ \E s \in Sessions, pwd \in Passwords : Login(s, pwd)
    \/ \E s \in Sessions : BackToRegister(s)
    \/ \E s \in Sessions : StartClick(s)
    \/ \E s \in Sessions : ResetClick(s)
    \/ \E s \in Sessions, code \in ScanCodes : Scan(s, code)
    \/ \E s \in Sessions : ScanFail(s)

Spec == Init /\ [][Next]_vars

NextConc ==
    \/ Tick
    \/ \E s \in Sessions : NewSession(s)
    \/ \E s \in Sessions, name \in Names, group \in Groups, uid \in IdSpace :
           SubmitRegister(s, name, group, uid)
    \/ \E s \in Sessions : GoAdminLogin(s)
    \/ \E s \in Sessions, pwd \in Passwords : Login(s, pwd)
    \/ \E s \in Sessions : BackToRegister(s)
    \/ \E s \in Sessions : ScanFail(s)
    \/ \E s \in Sessions : CStartBegin(s)
    \/ \E s \in Sessions : CStartEnd(s)
    \/ \E s \in Sessions : CResetBegin(s)
    \/ \E s \in Sessions : CResetMid(s)
    \/ \E s \in Sessions : CResetEnd(s)
    \/ \E s \in Sessions, code \in ScanCodes : CScanBegin(s, code)
    \/ \E s \in Sessions : CRf40a(s)
    \/ \E s \in Sessions : CRf40b(s)
    \/ \E s \in Sessions : CRf41(s)
    \/ \E s \in Sessions : CRf42(s)
    \/ \E s \in Sessions : CRf43(s)
    \/ \E s \in Sessions : CRf44(s)
    \/ \E s \in Sessions : CRf46(s)
    \/ \E s \in Sessions : CDfBegin(s)
    \/ \E s \in Sessions : CDfNext(s)

\* the same program with its threads interleaved
SpecConc == Init /\ [][NextConc]_vars

\* the handlers one at a time, and the contestant pages polling: every loop
\* that has not left gets its next iteration (time.sleep(0.1) returns)
NextPoll ==
    \/ Next
    \/ \E s \in Sessions : Poll(s)

SpecPoll == Init /\ [][NextPoll]_vars /\ \A s \in Sessions : WF_vars(Poll(s))

\* the handlers one at a time, with stale following the resets
NextGen ==
    \/ Tick
    \/ \E s \in Sessions : NewSession(s)
    \/ \E s \in Sessions, name \in Names, group \in Groups, uid \in IdSpace :
           SubmitRegister(s, name, group, uid)
    \/ \E s \in Sessions : GoAdminLogin(s)
    \/ \E s \in Sessions, pwd \in Passwords : Login(s, pwd)
    \/ \E s \in Sessions : BackToRegister(s)
    \/ \E s \in Sessions : StartClick(s)
    \/ \E s \in Sessions : ResetClickGen(s)
    \/ \E s \in Sessions, code \in ScanCodes : Scan(s, code)
    \/ \E s \in Sessions : ScanFail(s)

SpecGen == Init /\ [][NextGen]_vars

(* ======================= properties under Spec ========================= *)
ResetStep == \E s \in Sessions : ResetClick(s)

\* C1: within one race generation the ids register returns are pairwise
\* distinct, so the store holds as many contestants as register was called
\* since the latest reset
C1_IdsDistinct == Cardinality(DOMAIN contestants) = regCount

\* C3: without a reset, a finish_time that is set keeps the value it was
\* first given: no step changes it, unsets it or removes its contestant
C3_FinishTimeKept ==
    [][~ResetStep =>
         \A uid \in DOMAIN contestants :
             contestants[uid].finish_time # None =>
                 /\ Has(contestants', uid)
                 /\ contestants'[uid].finish_time = contestants[uid].finish_time]_vars

\* C4: once record_finish has returned Recorded with duration d for an id,
\* every later call for that id in the same generation returns
\* AlreadyFinished carrying d
C4_Idempotent ==
    (last.op = "record_finish" /\ last.prior # None) =>
        last.ret = <<FALSE, MsgAlready, Val(last.prior)>>

\* C6: once the race is running, start_time does not change until reset_race
C6_ClockNotReset ==
    [][(is_running /\ ~ResetStep) => start_time' = start_time]_vars

\* what record_finish returns for an id that is not registered
InvalidIdOutcome == record_finish(contestants, start_time, now, ForeignCode).ret

\* C7: a scan of a registered id before the race is started returns an
\* outcome that differs from the outcome for an unknown id
C7_Distinguishable ==
    (last.op = "record_finish" /\ last.known /\ ~last.started) =>
        last.ret # InvalidIdOutcome

\* C8: a record_finish call that does not return Recorded leaves
\* contestants, start_time and is_running as they were
C8_RejectedScanKeepsStore ==
    (last.op = "record_finish" /\ ~last.ret[1]) => store = last.pre
\* an already finished contestant was scanned again
C8_Witness ==
    /\ last.op = "record_finish"
    /\ last.ret[2] = MsgAlready
    /\ last.known

\* C9: right after reset_race the store is in its initial state and the
\* snapshot has no rows
C9_ResetIsInitial ==
    last.op = "reset_race" =>
        /\ contestants = EmptyDict
        /\ start_time = None
        /\ is_running = FALSE
        /\ get_dataframe(contestants) = <<>>
\* reset_race was called on a started race with contestants
C9_Witness == last.op = "reset_race" /\ last.before > 0 /\ last.was_running

\* C10: in every leaderboard the dashboard may show, finished contestants
\* come in ascending order of finish time and unfinished ones after them
\* (stated for finish times of at least one centisecond)
C10_LeaderboardOrder ==
    (\E s \in Sessions : page[s] = "admin_dashboard") =>
        LET df == get_dataframe(contestants)
        IN \A p \in Leaderboards(contestants) :
               \A i, j \in DOMAIN p :
                   i < j =>
                       LET fi == contestants[df[p[i]].uid].finish_time
                           fj == contestants[df[p[j]].uid].finish_time
                       IN /\ ~(fi = None /\ Truthy(fj))
                          /\ (Truthy(fi) /\ Truthy(fj)) => Val(fi) <= Val(fj)
(* ===================== properties under SpecConc ======================= *)
\* C2: of the record_finish calls that run concurrently for one contestant,
\* exactly one writes finish_time (and returns Recorded); the others find
\* it set
C2_OneWriter == \A uid \in DOMAIN contestants : writes[uid] <= 1

\* C5: in every state a session can observe, also between the attribute
\* writes of start_race and reset_race, is_running is True exactly when
\* start_time is set
C5_RunningIffStarted == is_running <=> (start_time # None)


\* C14: a get_dataframe call that runs while other threads register, record
\* finishes and reset completes, and the frame it returns has, in every row,
\* a status and a time that agree (finished with a formatted time, or
\* unfinished with the placeholder), the row being that of a contestant
\* that was in the store during the call
C14_SnapshotCompletes ==
    last.op = "get_dataframe" =>
        /\ last.raised = "none"
        /\ \A i \in DOMAIN last.rows :
               /\ \/ last.rows[i].status = StatusDone /\ last.rows[i].time # DashStr
                  \/ last.rows[i].status = StatusOpen /\ last.rows[i].time = DashStr
               /\ last.rows[i].uid \in last.began


\* C15: however the steps of a record_finish call interleave with a
\* reset_race of another thread, the call ends by returning one of its
\* result tuples, never by raising part-way; and when it returns Recorded the
\* store holds the returned finish time for that id, unless the entry that
\* was written is gone since (no write to the id's current entry)
C15_ReturnsDefinedResult ==
    last.op = "record_finish" =>
        /\ last.raised = "none"
        /\ last.ret[1] =>
               \/ writes[last.code] = 0
               \/ /\ Has(contestants, last.code)
                  /\ contestants[last.code].finish_time = Some(last.ret[3])

(* ================== further properties under Spec ===================== *)
\* C11: a duration that is None is rendered as a sentinel that is not
\* "00:00.00", and a duration that is present (0 included) is never rendered
\* as that sentinel: by format_time, and in the time and status columns of
\* the snapshot row of every contestant in the store
C11_AbsentAndPresentApart ==
    LET df == get_dataframe(contestants)
    IN \A i \in DOMAIN df :
           LET ft == contestants[df[i].uid].finish_time
           IN IF ft = None
              THEN /\ format_time(ft) # ZeroTimeStr
                   /\ df[i].time # ZeroTimeStr
                   /\ df[i].status = StatusOpen
              ELSE /\ format_time(ft) # format_time(None)
                   /\ df[i].time = format_time(ft)
                   /\ df[i].time # DashStr
                   /\ df[i].status = StatusDone

\* C12: with a clock that never runs backwards, every stored finish_time is
\* at least 0 and is the timestamp of its scan (a clock reading up to now)
\* minus the start_time the store holds now
C12_FinishIsScanMinusStart ==
    \A uid \in DOMAIN contestants :
        LET ft == contestants[uid].finish_time
        IN ft # None =>
               /\ Val(ft) >= 0
               /\ start_time # None
               /\ \E scan \in 0 .. now : Val(ft) = scan - Val(start_time)

\* C16: a submit of the register form with an empty name does not call
\* register and leaves the store as it was, the session staying on the
\* register page without a user_id; and no contestant in the store has an
\* empty name
C16_EmptyNameRejected ==
    /\ \A uid \in DOMAIN contestants : contestants[uid].name # ""
    /\ last.op = "submit_empty" =>
           /\ store = last.pre
           /\ regCount = last.regs
           /\ page[last.s] = "register"
           /\ user_id[last.s] = None
\* the form was submitted without a name while the store held a contestant
C16_Witness == last.op = "submit_empty" /\ contestants # EmptyDict

\* C17: a record_finish call that returns Recorded leaves is_running,
\* start_time, the set of registered ids, every name and group and every
\* other contestant's finish_time as they were, and sets the finish_time of
\* its id to the duration returned; start_race leaves contestants as it was
C17_Frame ==
    /\ (last.op = "record_finish" /\ last.ret[1]) =>
           LET before == last.pre[1]
           IN /\ start_time = last.pre[2]
              /\ is_running = last.pre[3]
              /\ DOMAIN contestants = DOMAIN before
              /\ \A uid \in DOMAIN before :
                     /\ contestants[uid].name = before[uid].name
                     /\ contestants[uid].group = before[uid].group
                     /\ uid # last.code =>
                            contestants[uid].finish_time = before[uid].finish_time
              /\ contestants[last.code].finish_time = Some(last.ret[3])
    /\ last.op = "start_race" => contestants = last.pre_contestants
\* a finish was recorded while another contestant was still running
C17_Witness ==
    /\ last.op = "record_finish"
    /\ last.ret[1]
    /\ \E uid \in DOMAIN contestants : uid # last.code /\ contestants[uid].finish_time = None

\* C18: a session is on the admin_dashboard page only if it has submitted
\* the right password on its admin_login page, and start_race, reset_race
\* and record_finish are called only by a session that is on admin_dashboard
C18_AdminGate ==
    /\ \A s \in Sessions : page[s] = "admin_dashboard" => authed[s]
    /\ last.op \in {"start_race", "reset_race", "record_finish"} =>
           page[last.s] = "admin_dashboard" /\ authed[last.s]
\* an organiser session called the manager while another session, which
\* has not logged in, sits on the login page
C18_Witness ==
    /\ last.op \in {"start_race", "reset_race", "record_finish"}
    /\ \E s \in Sessions : page[s] = "admin_login" /\ ~authed[s]

(* ===================== properties under SpecPoll ======================= *)
\* C13: with the poll loop scheduled fairly, a loop that polls while the
\* store holds a finish time for the id of its session stops (unless that
\* finish time leaves the store or the session is reloaded first); and the
\* poll that stops a loop has seen the session's own finish_time and shows
\* it formatted
C13_LoopStopsOnOwnFinish ==
    /\ \A s \in Sessions :
           LET Holds == /\ page[s] = "contestant"
                        /\ Has(contestants, Val(user_id[s]))
                        /\ contestants[Val(user_id[s])].finish_time # None
           IN (Holds /\ ~stopped[s]) ~> (stopped[s] \/ ~Holds)
    /\ [](last.op = "poll" =>
             (last.stop => last.own # None /\ last.shown = format_time(last.own)))

(* ====================== properties under SpecGen ======================= *)
\* C19: after reset_race, a record_finish call with a token that was issued
\* before the reset (the id a contestant session of an earlier generation
\* still shows) never records a finish time, whatever is registered,
\* started and scanned after the reset
C19_OldTokenNeverRecords ==
    (/\ last.op = "record_finish"
     /\ \E s \in Sessions : stale[s] /\ user_id[s] = Some(last.code)) => ~last.ret[1]
\* C19, amended: a record_finish call with a token that was issued before
\* the latest reset_race records a finish time only if register has issued
\* its id again since; while register has not been called since the reset,
\* or the id is not in the store, the call returns the invalid-id result and
\* leaves the store as it was
C19_UnissuedOldTokenRejected ==
    (/\ last.op = "record_finish"
     /\ \E s \in Sessions : stale[s] /\ user_id[s] = Some(last.code)
     /\ regCount = 0 \/ ~Has(last.pre[1], last.code)) =>
        last.ret = <<FALSE, MsgInvalid, 0>> /\ store = last.pre
\* a token of an earlier generation was scanned in a started race that has
\* contestants, none of them with that id
C19_Witness ==
    /\ last.op = "record_finish"
    /\ \E s \in Sessions : stale[s] /\ user_id[s] = Some(last.code)
    /\ ~last.known
    /\ last.started
    /\ contestants # EmptyDict
====
